---- MODULE Spec2Model ----
(***************************************************************************)
(* lakeview dashboard (src/src/lakeview/dashboard.py): the incremental     *)
(* history cache (load_data, load_specific_tables, load_selected_tables),  *)
(* the name normalisation (get_all_table_info) and the selection callbacks *)
(* (update_checklist, update_selected_tables).                             *)
(*                                                                         *)
(* Representation.  A Python str is a sequence of one-character strings,   *)
(* so "./d/t1" is <<".", "/", "d", "/", "t", "1">>.  A polars DataFrame is *)
(* a sequence of rows, every row a function from the frame's columns to    *)
(* values; a column absent from a source dict holds Null.  The sorted      *)
(* lists all_tables and loaded_tables and the list held by the             *)
(* table-filter store are kept as sets: the callbacks only test membership *)
(* in them, and the one place where the order of a list reaches the data   *)
(* (the order in which load_specific_tables appends histories) is a        *)
(* nondeterministic choice, because list(set) has no fixed order.          *)
(***************************************************************************)
EXTENDS Integers, Sequences, FiniteSets, TLC

VARIABLES
    histories,        \* what get_table_history_py returns (stable across calls)
    all_tables,       \* module level all_tables            (dashboard.py:407)
    loaded_tables,    \* module level loaded_tables         (dashboard.py:408)
    table_filter,     \* dcc.Store "table-filter".data      (dashboard.py:492)
    table_search,     \* dbc.Input "table-search".value     (dashboard.py:436)
    dataframe_store,  \* dcc.Store "dataframe-store".data   (dashboard.py:496)
    provider_calls,   \* provider calls made by the last load_selected_tables run
    event,            \* what the last run of update_selected_tables did
    mrg,              \* merge harness: two name lists and the stores of both load orders
    fn,               \* function harness: an operation's input and its result
    runs,             \* the load_selected_tables request in flight
    checklist,        \* the checkboxes of "table-checklist-container"
    inflight          \* the requests of the selection callbacks in flight

vars == <<histories, all_tables, loaded_tables, table_filter, table_search,
          dataframe_store, provider_calls, event, mrg, fn, runs, checklist,
          inflight>>

----------------------------------------------------------------------------
(* Bounds of the model.                                                     *)

\* rows the store may hold beyond those of the startup load_data
MaxExtraRows == 2
\* version records of the longest history of a provider world
MaxVersions == 2
\* tables of a fragment of the merge harness
MaxFragmentTables == 2

\* missing-value marker of polars (None in to_dicts), for the integer columns
Null == -1

\* load_data(max_tables=5)
max_tables == 5

----------------------------------------------------------------------------
(* Python str operations used by the code.                                  *)

StartsWith(s, p) == Len(p) <= Len(s) /\ SubSeq(s, 1, Len(p)) = p

EndsWith(s, p) == Len(p) <= Len(s) /\ SubSeq(s, Len(s) - Len(p) + 1, Len(s)) = p

\* positions at which p occurs in s
Occurrences(s, p) ==
    {i \in 1..(Len(s) - Len(p) + 1) : SubSeq(s, i, i + Len(p) - 1) = p}

\* p in s
Contains(s, p) == p = <<>> \/ Occurrences(s, p) # {}

\* s.replace(p, "", 1) for a non-empty p: drops the first occurrence of p
ReplaceFirst(s, p) ==
    IF Occurrences(s, p) = {} THEN s
    ELSE LET i == CHOOSE j \in Occurrences(s, p) :
                      \A k \in Occurrences(s, p) : j <= k
         IN  SubSeq(s, 1, i - 1) \o SubSeq(s, i + Len(p), Len(s))

\* polars str.strip_prefix(p): drops p only at the start of s
StripPrefix(s, p) ==
    IF StartsWith(s, p) THEN SubSeq(s, Len(p) + 1, Len(s)) ELSE s

RECURSIVE Split(_)
\* s.split("/"): the segments between separators, empty ones included
Split(s) ==
    IF \A i \in 1..Len(s) : s[i] # "/" THEN <<s>>
    ELSE LET i == CHOOSE j \in 1..Len(s) :
                      s[j] = "/" /\ \A k \in 1..(j - 1) : s[k] # "/"
         IN  <<SubSeq(s, 1, i - 1)>> \o Split(SubSeq(s, i + 1, Len(s)))

RECURSIVE JoinSlash(_)
\* "/".join(segs)
JoinSlash(segs) ==
    IF segs = <<>> THEN <<>>
    ELSE IF Len(segs) = 1 THEN segs[1]
    ELSE segs[1] \o <<"/">> \o JoinSlash(Tail(segs))

UpperCase == <<"A", "B", "D", "T", "Z">>
LowerCase == <<"a", "b", "d", "t", "z">>

\* str.lower() on the alphabet of the model
LowerChar(c) ==
    IF \E i \in 1..Len(UpperCase) : UpperCase[i] = c
    THEN LowerCase[CHOOSE i \in 1..Len(UpperCase) : UpperCase[i] = c]
    ELSE c

Lower(s) == [i \in 1..Len(s) |-> LowerChar(s[i])]

RECURSIVE DropCurdir(_)
\* [c for c in s if c and c != curdir]
DropCurdir(segs) ==
    IF segs = <<>> THEN <<>>
    ELSE IF segs[1] = <<>> \/ segs[1] = <<".">> THEN DropCurdir(Tail(segs))
    ELSE <<segs[1]>> \o DropCurdir(Tail(segs))

RECURSIVE CommonSegments(_, _)
\* the longest common run of leading elements of two segment lists
CommonSegments(a, b) ==
    IF a = <<>> \/ b = <<>> THEN <<>>
    ELSE IF a[1] # b[1] THEN <<>>
    ELSE <<a[1]>> \o CommonSegments(Tail(a), Tail(b))

RECURSIVE CommonOfAll(_, _)
CommonOfAll(common, paths) ==
    IF paths = {} THEN common
    ELSE LET p == CHOOSE q \in paths : TRUE
         IN  CommonOfAll(CommonSegments(common, DropCurdir(Split(p))),
                         paths \ {p})

\* os.path.commonpath(paths) for a non-empty set of relative POSIX paths:
\* the longest common run of leading segments, "." and empty segments
\* dropped, joined by "/"
commonpath(paths) ==
    JoinSlash(CommonOfAll(DropCurdir(Split(CHOOSE q \in paths : TRUE)), paths))

\* the prefix both name computations strip (dashboard.py:90-94, 135-139)
WithSlash(cp) == IF EndsWith(cp, <<"/">>) THEN cp ELSE cp \o <<"/">>

WithDotSlash(cp) ==
    IF StartsWith(cp, <<".", "/">>) THEN cp ELSE <<".", "/">> \o cp

common_prefix(paths) == WithDotSlash(WithSlash(commonpath(paths)))

\* path.split("/")[-1]
LastSegment(path) == LET s == Split(path) IN s[Len(s)]

----------------------------------------------------------------------------
(* The provider's answers: the inputs of the model.  A history is the list  *)
(* history.to_dict() of one table, ordered by version; an empty list is a   *)
(* table without version records.  Strings that the code only compares for  *)
(* equality (operation) are plain strings.                                  *)

Root == <<".", "/", "d">>

Path(segs) == Root \o <<"/">> \o JoinSlash(segs)

\* total_rows by version: not monotonic
RowsByVersion == <<10, 20, 15, 40>>

OperationByVersion == <<"WRITE", "DELETE", "OPTIMIZE", "WRITE">>

\* the version record v of the i-th table of a layout; every second table
\* reports no files_removed key at all
VersionRecord(path, i, v) ==
    LET base == [table_path  |-> path,
                 version     |-> v,
                 timestamp   |-> 1000 * i + v,
                 operation   |-> OperationByVersion[(v % 4) + 1],
                 total_rows  |-> RowsByVersion[(v % 4) + 1] + i,
                 total_bytes |-> 512 * (RowsByVersion[(v % 4) + 1] + i),
                 files_added |-> v + 1]
    IN  IF i % 2 = 0 THEN base
        ELSE [c \in DOMAIN base \cup {"files_removed"} |->
                 IF c = "files_removed" THEN v ELSE base[c]]

NumVersions(i) == 1 + (i % MaxVersions)

\* a layout lists, in the provider's enumeration order, each table's path
\* and whether its history is empty
HistoriesOf(layout) ==
    [i \in 1..Len(layout) |->
        IF layout[i].empty THEN <<>>
        ELSE [k \in 1..NumVersions(i) |-> VersionRecord(layout[i].path, i, k - 1)]]

T(path) == [path |-> path, empty |-> FALSE]
E(path) == [path |-> path, empty |-> TRUE]

\* five tables under a/, a sixth under b/ with the last segment of the first
LayoutNested ==
    << T(Path(<< <<"a">>, <<"t", "1">> >>)), T(Path(<< <<"a">>, <<"t", "2">> >>)),
       T(Path(<< <<"a">>, <<"t", "3">> >>)), T(Path(<< <<"a">>, <<"t", "4">> >>)),
       T(Path(<< <<"a">>, <<"t", "5">> >>)), T(Path(<< <<"b">>, <<"t", "1">> >>)) >>

\* tables at the top, one without version records, and a sixth in a
\* sub-directory with the last segment of the first
LayoutMixed ==
    << T(Path(<< <<"t", "1">> >>)), E(Path(<< <<"t", "2">> >>)),
       T(Path(<< <<"t", "3">> >>)), T(Path(<< <<"t", "4">> >>)),
       T(Path(<< <<"T", "5">> >>)), T(Path(<< <<"b">>, <<"t", "1">> >>)) >>

\* one table only
LayoutSingle == << T(Path(<< <<"a">>, <<"t", "1">> >>)) >>

\* six tables in one directory, three of them without version records:
\* load_data loads t1 and T5, the checklist also offers t6
LayoutFew ==
    << T(Path(<< <<"t", "1">> >>)), E(Path(<< <<"t", "2">> >>)),
       E(Path(<< <<"t", "3">> >>)), E(Path(<< <<"t", "4">> >>)),
       T(Path(<< <<"T", "5">> >>)), T(Path(<< <<"t", "6">> >>)) >>

\* a table under a/, four without version records, and a sixth under b/
\* with the last segment of the first: load_data loads a/t1 alone
LayoutPair ==
    << T(Path(<< <<"a">>, <<"t", "1">> >>)), E(Path(<< <<"a">>, <<"t", "2">> >>)),
       E(Path(<< <<"a">>, <<"t", "3">> >>)), E(Path(<< <<"a">>, <<"t", "4">> >>)),
       E(Path(<< <<"a">>, <<"t", "5">> >>)), T(Path(<< <<"b">>, <<"t", "1">> >>)) >>

\* the provider worlds of the running dashboard
Layouts == {LayoutFew, LayoutPair, LayoutSingle}

\* the search texts a user types; <<>> is the empty box
SearchTexts == { <<>>, <<"B", "/">> }

----------------------------------------------------------------------------
(* polars frames.                                                           *)

RECURSIVE Flatten(_)
\* records.extend(h) for each h in turn
Flatten(hs) == IF hs = <<>> THEN <<>> ELSE hs[1] \o Flatten(Tail(hs))

Columns(df) == UNION {DOMAIN df[k] : k \in 1..Len(df)}

\* a row widened to cols, absent values Null
Widen(row, cols) == [c \in cols |-> IF c \in DOMAIN row THEN row[c] ELSE Null]

\* pl.DataFrame(records, infer_schema_length=None): the union of the keys
WidenAll(rows, cols) == [k \in 1..Len(rows) |-> Widen(rows[k], cols)]

DataFrame(records) == WidenAll(records, Columns(records))

is_empty(df) == Len(df) = 0

\* df["table_name"].unique().to_list(), as a set
UniqueOf(df, col) == {df[k][col] : k \in 1..Len(df)}

\* the timestamp column: pl.from_epoch(ms).cast(Datetime("ms")) keeps the
\* millisecond instant the provider gave
with_timestamp(df) == df

StripAll(paths, prefix) == [p \in paths |-> StripPrefix(p, prefix)]

\* the table_name of every path of a frame
FrameNames(paths) ==
    IF Cardinality(paths) > 1 THEN StripAll(paths, common_prefix(paths))
    ELSE [p \in paths |-> LastSegment(p)]

\* df.with_columns(<expression of table_path>.alias(col))
WithColumn(df, col, by_path) ==
    [k \in 1..Len(df) |->
        [c \in DOMAIN df[k] \cup {col} |->
            IF c = col THEN by_path[df[k].table_path] ELSE df[k][c]]]

\* the table_name column both loaders add (dashboard.py:132-152, 172-192):
\* relative to the common prefix of the paths IN THE FRAME, or the last
\* segment when the frame holds one path
with_table_name(df) ==
    IF is_empty(df) THEN df
    ELSE WithColumn(df, "table_name", FrameNames(UniqueOf(df, "table_path")))

\* df.to_dicts()
to_dicts(df) == df

\* deserialize_dataframe(df_dicts)
deserialize_dataframe(df_dicts) ==
    IF df_dicts = <<>> THEN <<>> ELSE DataFrame(df_dicts)

\* a concat that keeps the columns of the first frame only
concat_left_columns(a, b) == WidenAll(a \o b, Columns(a))

\* pl.concat([a, b], how="diagonal"): rows of a then of b over the union of
\* the columns, absent values Null
concat_diagonal(a, b) == WidenAll(a \o b, Columns(a) \cup Columns(b))

----------------------------------------------------------------------------
(* The loaders.                                                             *)

RECURSIVE FirstPaths(_)
\* all_table_paths: the table_path of the first record of every non-empty
\* history, in the provider's order
FirstPaths(hs) ==
    IF hs = <<>> THEN <<>>
    ELSE (IF hs[1] = <<>> THEN <<>> ELSE <<hs[1][1].table_path>>)
         \o FirstPaths(Tail(hs))

Range(q) == {q[i] : i \in 1..Len(q)}

\* one call get_table_history_py("./tests/data/delta", True, None): the
\* provider is asked for every table under the root
ProviderCall(hs) ==
    [root |-> "./tests/data/delta", recursive |-> TRUE, limit |-> "None",
     tables |-> Range(FirstPaths(hs))]

ReplaceAll(paths, prefix) ==
    [i \in 1..Len(paths) |-> ReplaceFirst(paths[i], prefix)]

\* all_table_names (dashboard.py:88-99)
TableNames(all_table_paths) ==
    IF Len(all_table_paths) > 1
    THEN ReplaceAll(all_table_paths, common_prefix(Range(all_table_paths)))
    ELSE [i \in 1..Len(all_table_paths) |-> LastSegment(all_table_paths[i])]

InfoOf(hs, all_table_paths) ==
    [all_histories   |-> hs,
     all_table_names |-> TableNames(all_table_paths),
     all_table_paths |-> all_table_paths]

get_all_table_info(hs) == InfoOf(hs, FirstPaths(hs))

\* dict(zip(names, paths))[name]: the last pair of a name wins
NameToPath(names, paths, name) ==
    LET i == CHOOSE j \in 1..Len(names) :
                 names[j] = name /\ \A k \in (j + 1)..Len(names) : names[k] # name
    IN  paths[i]

\* the history the inner loop of load_specific_tables extends records with:
\* the first non-empty one whose first record has the target path
HistoryAt(hs, target_path) ==
    LET hit == {i \in 1..Len(hs) :
                   hs[i] # <<>> /\ hs[i][1].table_path = target_path}
    IN  IF hit = {} THEN <<>>
        ELSE hs[CHOOSE i \in hit : \A j \in hit : i <= j]

RECURSIVE RecordsFor(_, _, _)
RecordsFor(info, hs, table_names_to_load) ==
    IF table_names_to_load = <<>> THEN <<>>
    ELSE LET table_name == table_names_to_load[1]
             mine == IF table_name \in Range(info.all_table_names)
                     THEN HistoryAt(hs, NameToPath(info.all_table_names,
                                                   info.all_table_paths,
                                                   table_name))
                     ELSE <<>>
         IN  mine \o RecordsFor(info, hs, Tail(table_names_to_load))

\* load_specific_tables(table_names_to_load), with the provider's answer hs;
\* calls lists the provider calls it made
FrameOf(records) ==
    IF records = <<>> THEN <<>>
    ELSE with_table_name(with_timestamp(DataFrame(records)))

load_specific_tables(hs, table_names_to_load) ==
    [df    |-> FrameOf(RecordsFor(get_all_table_info(hs), hs,
                                  table_names_to_load)),
     calls |-> <<ProviderCall(hs)>>]

\* records of load_data: those of all_histories[:max_tables]
FirstRecords(hs, n) == Flatten(SubSeq(hs, 1, IF n < Len(hs) THEN n ELSE Len(hs)))

\* load_data(max_tables) -> (df, all_table_names).  Without a record
\* pl.DataFrame(records) has no column, and with_columns(pl.from_epoch(
\* "timestamp")) raises: load_data has no guard like the `if not records` of
\* load_specific_tables
load_data(hs, n) ==
    IF FirstRecords(hs, n) = <<>>
    THEN [raised |-> "ColumnNotFoundError"]
    ELSE [df              |-> with_table_name(with_timestamp(DataFrame(
                                  FirstRecords(hs, n)))),
          all_table_names |-> get_all_table_info(hs).all_table_names]

\* the call raised an exception
Raises(result) == "raised" \in DOMAIN result

\* a merge that keeps the new frame alone
merge_replace(current_df, new_df) ==
    IF is_empty(new_df) THEN current_df ELSE new_df

\* the merge of load_selected_tables (dashboard.py:627-631)
merge(current_df, new_df) ==
    IF is_empty(new_df) THEN current_df
    ELSE IF is_empty(current_df) THEN new_df
    ELSE concat_diagonal(current_df, new_df)

MergeLoaded(current_df, got) ==
    [data |-> to_dicts(merge(current_df, got.df)), calls |-> got.calls]

\* current_df["table_name"].unique().to_list() (dashboard.py:618-620)
loaded_tables_list(current_df) ==
    IF ~is_empty(current_df) /\ "table_name" \in Columns(current_df)
    THEN UniqueOf(current_df, "table_name")
    ELSE {}

\* load_selected_tables(selected_tables, current_df_dicts) -> the new store;
\* calls lists the provider calls of the run
\* tables_to_load (dashboard.py:622)
tables_to_load(selected_tables, loaded) ==
    SelectSeq(selected_tables, LAMBDA t : t \notin loaded)

\* dashboard.py:624-633 once current_df and tables_to_load are known
LoadAndMerge(hs, current_df, to_load) ==
    IF to_load # <<>>
    THEN MergeLoaded(current_df, load_specific_tables(hs, to_load))
    ELSE [data |-> to_dicts(current_df), calls |-> <<>>]

LoadInto(hs, selected_tables, current_df) ==
    LoadAndMerge(hs, current_df,
                 tables_to_load(selected_tables,
                                loaded_tables_list(current_df)))

load_selected_tables(hs, selected_tables, current_df_dicts) ==
    IF selected_tables = <<>>
    THEN [data |-> current_df_dicts, calls |-> <<>>]
    ELSE LoadInto(hs, selected_tables, deserialize_dataframe(current_df_dicts))

----------------------------------------------------------------------------
(* The selection callbacks.                                                 *)

\* the names a search text leaves visible (dashboard.py:643-647, 693-697)
visible_tables(search_value) ==
    IF search_value # <<>>
    THEN {t \in all_tables : Contains(Lower(t), Lower(search_value))}
    ELSE all_tables

\* update_checklist(search_value, selected_tables): one checkbox per visible
\* name, checked when the name is selected; no checkbox when nothing matches
update_checklist(search_value, selected_tables) ==
    LET filtered_tables == visible_tables(search_value)
    IN  [ids     |-> filtered_tables,
         checked |-> {t \in filtered_tables : t \in selected_tables}]

\* what update_selected_tables computes before the fallback
all_selected(checked, current_selection, search_value) ==
    LET hidden_tables == all_tables \ visible_tables(search_value)
        hidden_selected == {t \in current_selection : t \in hidden_tables}
    IN  checked \cup hidden_selected

\* whether update_selected_tables returns loaded_tables
falls_back(checked, checkbox_ids, current_selection, search_value) ==
    \/ checkbox_ids = {}
    \/ all_selected(checked, current_selection, search_value) = {}

\* a fallback to the names the store holds now
update_selected_tables_now(checked, checkbox_ids, current_selection, search_value) ==
    IF falls_back(checked, checkbox_ids, current_selection, search_value)
    THEN loaded_tables_list(deserialize_dataframe(dataframe_store))
    ELSE all_selected(checked, current_selection, search_value)

\* update_selected_tables(checkbox_values, checkbox_ids, current_selection,
\* search_value); checked is the set of ids whose value is True
update_selected_tables(checked, checkbox_ids, current_selection, search_value) ==
    IF falls_back(checked, checkbox_ids, current_selection, search_value)
    THEN loaded_tables
    ELSE all_selected(checked, current_selection, search_value)

----------------------------------------------------------------------------
(* The state machine.                                                       *)

RECURSIVE SeqOf(_)
\* some list of the elements of a set
SeqOf(S) ==
    IF S = {} THEN <<>>
    ELSE LET x == CHOOSE y \in S : TRUE IN <<x>> \o SeqOf(S \ {x})

RECURSIVE Perms(_)
\* the lists that hold every element of a set once
Perms(S) ==
    IF S = {} THEN {<<>>}
    ELSE UNION {{<<x>> \o q : q \in Perms(S \ {x})} : x \in S}

ListsWith(selection, delta) ==
    {SeqOf(selection \ delta) \o d : d \in Perms(delta)}

\* the table-filter store holds list(set): the lists of a selection that
\* differ in the order of the names load_selected_tables will load
ListsOf(selection, current_df_dicts) ==
    ListsWith(selection,
              selection \ loaded_tables_list(
                              deserialize_dataframe(current_df_dicts)))

\* the model follows the dashboard while the store holds at most every
\* provider record once plus MaxExtraRows
RowCap == Len(Flatten(histories)) + MaxExtraRows

WithinBounds == Len(dataframe_store) <= RowCap

MergeIdle == [pc |-> "idle", A |-> <<>>, B |-> <<>>, AB |-> <<>>, BA |-> <<>>]

FnIdle == [pc |-> "idle", in |-> <<>>, out |-> <<>>]

\* a checklist without a checkbox
NoBoxes == [ids |-> {}, checked |-> {}]

\* no request of update_checklist or update_selected_tables is in flight
NoRequests == [update_checklist |-> <<>>, update_selected_tables |-> <<>>]

\* the state once the module is imported and the page has made its first
\* callbacks: load_data has run, the stores hold loaded_tables and df, the
\* checklist is rendered and no request is in flight
Init ==
    /\ histories \in {HistoriesOf(l) : l \in Layouts}
    /\ LET start == load_data(histories, max_tables)
       IN  /\ ~Raises(start)
           /\ all_tables = Range(start.all_table_names)
           /\ loaded_tables = UniqueOf(start.df, "table_name")
           /\ table_filter = UniqueOf(start.df, "table_name")
           /\ dataframe_store = to_dicts(start.df)
    /\ table_search = <<>>
    /\ checklist = update_checklist(table_search, table_filter)
    /\ inflight = NoRequests
    /\ provider_calls = <<>>
    /\ event = [kind |-> "startup", fallback |-> FALSE]
    /\ mrg = MergeIdle
    /\ fn = FnIdle
    /\ runs = <<>>

\* the request of update_checklist: its Inputs as they are at dispatch;
\* after tells what triggered it, the search box or the write of table-filter
ChecklistRequest(after) ==
    [search_value |-> table_search', selected_tables |-> table_filter',
     after |-> after]

\* the request of update_selected_tables for the checkboxes boxes: Input and
\* States as they are at dispatch; names are the checkboxes clicked
SelectedRequest(boxes, cause, names) ==
    [checked |-> boxes.checked, ids |-> boxes.ids,
     current_selection |-> table_filter', search_value |-> table_search',
     cause |-> cause, names |-> names]

\* the user types text into table-search: update_checklist is requested, and
\* the request replaces one in flight
Type(text) ==
    /\ text # table_search
    /\ table_search' = text
    /\ UNCHANGED table_filter
    /\ inflight' = [inflight EXCEPT !.update_checklist = <<ChecklistRequest("search")>>]
    /\ UNCHANGED <<histories, all_tables, loaded_tables, checklist,
                   dataframe_store, provider_calls, event, mrg, fn, runs>>

\* the names clicked since update_selected_tables last answered
Clicked == IF inflight.update_selected_tables # <<>>
              /\ inflight.update_selected_tables[1].cause = "tick"
           THEN inflight.update_selected_tables[1].names
           ELSE {}

\* the user clicks the checkbox of a name the checklist shows: its value
\* flips and update_selected_tables is requested with the values as they are
Tick(name) ==
    /\ name \in checklist.ids
    /\ checklist' = [checklist EXCEPT !.checked = IF name \in @ THEN @ \ {name}
                                                  ELSE @ \cup {name}]
    /\ UNCHANGED <<table_filter, table_search>>
    /\ inflight' = [inflight EXCEPT !.update_selected_tables =
                       <<SelectedRequest(checklist', "tick", Clicked \cup {name})>>]
    /\ UNCHANGED <<histories, all_tables, loaded_tables, dataframe_store,
                   provider_calls, event, mrg, fn, runs>>

\* update_checklist answers: the checkboxes are rendered anew; checkboxes
\* that come from a change of the search text trigger update_selected_tables,
\* those that come from its own write of table-filter do not
AnswerChecklist ==
    /\ inflight.update_checklist # <<>>
    /\ LET request == inflight.update_checklist[1]
       IN  /\ checklist' = update_checklist(request.search_value,
                                            request.selected_tables)
           /\ UNCHANGED <<table_filter, table_search>>
           /\ inflight' =
                 [update_checklist |-> <<>>,
                  update_selected_tables |->
                      IF request.after = "search"
                      THEN <<SelectedRequest(checklist', "render", {})>>
                      ELSE inflight.update_selected_tables]
    /\ UNCHANGED <<histories, all_tables, loaded_tables, dataframe_store,
                   provider_calls, event, mrg, fn, runs>>

\* the request of load_selected_tables: Input table-filter in one of the
\* orders of list(set), State dataframe-store as it is at dispatch
LoadRequests ==
    {[selected |-> selected_tables, snapshot |-> dataframe_store] :
        selected_tables \in ListsOf(table_filter', dataframe_store)}

\* update_selected_tables answers: table-filter is written, which requests
\* load_selected_tables (a request in flight is replaced) and, after a
\* click, update_checklist
AnswerSelected ==
    /\ inflight.update_selected_tables # <<>>
    /\ LET request == inflight.update_selected_tables[1]
       IN  /\ table_filter' = update_selected_tables(request.checked, request.ids,
                                                     request.current_selection,
                                                     request.search_value)
           /\ UNCHANGED table_search
           /\ inflight' =
                 [update_selected_tables |-> <<>>,
                  update_checklist |->
                      IF request.cause = "tick"
                      THEN <<ChecklistRequest("filter")>>
                      ELSE inflight.update_checklist]
           /\ event' = [kind |-> request.cause,
                        fallback |-> falls_back(request.checked, request.ids,
                                                request.current_selection,
                                                request.search_value)]
    /\ \E run \in LoadRequests : runs' = <<run>>
    /\ UNCHANGED <<histories, all_tables, loaded_tables, checklist,
                   dataframe_store, provider_calls, mrg, fn>>

\* what the run of a request returns
ResultOf(run) == load_selected_tables(histories, run.selected, run.snapshot)

\* load_selected_tables answers: dataframe-store is written
Answer ==
    /\ runs # <<>>
    /\ dataframe_store' = ResultOf(runs[1]).data
    /\ provider_calls' = ResultOf(runs[1]).calls
    /\ runs' = <<>>
    /\ UNCHANGED <<histories, all_tables, loaded_tables, table_filter,
                   table_search, checklist, inflight, event, mrg, fn>>

Next ==
    /\ WithinBounds
    /\ \/ \E text \in SearchTexts : Type(text)
       \/ \E name \in all_tables : Tick(name)
       \/ AnswerChecklist
       \/ AnswerSelected
       \/ Answer

Spec == Init /\ [][Next]_vars

----------------------------------------------------------------------------
(* The merge on its own: two lists of names, each loaded into the empty    *)
(* store by load_selected_tables and the other list loaded into the        *)
(* result, in both orders.                                                 *)

\* one list for every set of at most MaxFragmentTables names
NameLists(names) ==
    {SeqOf(S) : S \in {X \in SUBSET names : Cardinality(X) <= MaxFragmentTables}}

\* the fragment load_selected_tables merges for the names it has to load
Fragment(hs, names) == load_specific_tables(hs, names).df

Keys(df) == {<<df[k].table_path, df[k].version>> : k \in 1..Len(df)}

\* load_selected_tables(first, []) and then load_selected_tables(second, its
\* result)
MergeInto(hs, first, second) ==
    load_selected_tables(hs, second, load_selected_tables(hs, first, <<>>).data).data

\* the second run has to load every name of second: none of them is a
\* table_name of the store the first run returns
MergesAll(hs, first, second) ==
    tables_to_load(second, loaded_tables_list(deserialize_dataframe(
                               load_selected_tables(hs, first, <<>>).data))) = second

InitMerge ==
    /\ histories \in {HistoriesOf(LayoutNested), HistoriesOf(LayoutMixed)}
    /\ all_tables = Range(get_all_table_info(histories).all_table_names)
    /\ loaded_tables = {}
    /\ table_filter = {}
    /\ table_search = <<>>
    /\ dataframe_store = <<>>
    /\ provider_calls = <<>>
    /\ event = [kind |-> "merge", fallback |-> FALSE]
    /\ fn = FnIdle
    /\ runs = <<>>
    /\ checklist = NoBoxes
    /\ inflight = NoRequests
    /\ \E a, b \in NameLists(all_tables) :
          /\ Range(a) \cap Range(b) = {}
          /\ Keys(Fragment(histories, a)) \cap Keys(Fragment(histories, b)) = {}
          /\ MergesAll(histories, a, b) /\ MergesAll(histories, b, a)
          /\ mrg = [pc |-> "start", A |-> a, B |-> b, AB |-> <<>>, BA |-> <<>>]

MergeAB ==
    /\ mrg.pc \in {"start", "ba"}
    /\ mrg' = [mrg EXCEPT !.AB = MergeInto(histories, mrg.A, mrg.B),
                          !.pc = IF mrg.pc = "start" THEN "ab" ELSE "done"]
    /\ UNCHANGED <<histories, all_tables, loaded_tables, table_filter,
                   table_search, dataframe_store, provider_calls, event, fn, runs,
                   checklist, inflight>>

MergeBA ==
    /\ mrg.pc \in {"start", "ab"}
    /\ mrg' = [mrg EXCEPT !.BA = MergeInto(histories, mrg.B, mrg.A),
                          !.pc = IF mrg.pc = "start" THEN "ba" ELSE "done"]
    /\ UNCHANGED <<histories, all_tables, loaded_tables, table_filter,
                   table_search, dataframe_store, provider_calls, event, fn, runs,
                   checklist, inflight>>

NextMerge == MergeAB \/ MergeBA

SpecMerge == InitMerge /\ [][NextMerge]_vars

----------------------------------------------------------------------------
(* Properties.                                                              *)

\* the rows of a frame over the columns cols, absent values Null
RowsOver(df, cols) == [k \in 1..Len(df) |-> Widen(df[k], cols)]

\* the frames hold the same records, each as often, whatever the row order
SameRecords(x, y) ==
    LET cols == Columns(x) \cup Columns(y)
        times(df, r) == Cardinality({k \in 1..Len(df) : Widen(df[k], cols) = r})
    IN  /\ Len(x) = Len(y)
        /\ \A r \in Range(RowsOver(x, cols)) : times(x, r) = times(y, r)

\* the path the checklist name stands for
PathOfName(name) ==
    NameToPath(get_all_table_info(histories).all_table_names,
               get_all_table_info(histories).all_table_paths, name)

StartupFrame == load_data(histories, max_tables).df

\* a step in which load_selected_tables answers
LoadStep == runs # <<>> /\ runs' = <<>>

\* a step in which update_selected_tables answers a request of that cause
SelectedStep(cause) ==
    /\ inflight.update_selected_tables # <<>>
    /\ inflight'.update_selected_tables = <<>>
    /\ inflight.update_selected_tables[1].cause = cause

\* update_selected_tables answers after a click
ToggleStep == SelectedStep("tick")

\* update_selected_tables answers after a change of the search text has
\* rendered the checkboxes anew
FilterStep == SelectedStep("render")

\* C1: the dataset in dataframe-store holds no two records with the same
\* (table_path, version).
C1_NoDuplicateVersion ==
    \A i, j \in 1..Len(dataframe_store) :
        i # j => \/ dataframe_store[i].table_path # dataframe_store[j].table_path
                 \/ dataframe_store[i].version # dataframe_store[j].version

\* C2: load is idempotent: from any reachable dataset and for any selection
\* X, load_selected_tables with X and then again with X makes no provider
\* call in the second run and leaves the dataset as the first run left it.
C2_LoadIdempotent ==
    \A X \in SUBSET all_tables :
        LET first == load_selected_tables(histories, SeqOf(X), dataframe_store)
            second == load_selected_tables(histories, SeqOf(X), first.data)
        IN  second.calls = <<>> /\ second.data = first.data

\* C3: a provider call of a load asks for tables of the delta only, never
\* for the history of a table the dataset already holds.
C3_OnlyDeltaRequested ==
    [][LoadStep =>
          \A i \in 1..Len(provider_calls') :
              provider_calls'[i].tables \cap UniqueOf(dataframe_store, "table_path") = {}]_vars

\* C4: a change of the search text leaves selected as it was.
C4_FilterKeepsSelected == [][FilterStep => table_filter' = table_filter]_vars

\* C5: a toggle that does not fall back changes the membership in selected of
\* the toggled name only.
C5_ToggleChangesOnlyToggled ==
    [][(ToggleStep /\ ~event'.fallback) =>
          \A t \in (table_filter \cup table_filter') \ Clicked :
              t \in table_filter' <=> t \in table_filter]_vars

\* C6 as claimed: a toggle that would leave selected empty sets it to the
\* table names the dataset holds at that moment.
C6_FallbackIsLoadedNow ==
    [][(ToggleStep /\ event'.fallback) =>
          table_filter' = UniqueOf(dataframe_store, "table_name")]_vars

\* C6 as amended: a toggle that would leave selected empty sets it to
\* loaded_tables, the table names of the dataset load_data built at startup,
\* whatever has been loaded since; that list is not empty, so selected is
\* never empty after a toggle.
C6_FallbackIsStartupLoaded ==
    [][ToggleStep =>
          /\ table_filter' # {}
          /\ event'.fallback =>
                table_filter' = UniqueOf(StartupFrame, "table_name")]_vars

\* C6 witness: a toggle has fallen back while the dataset holds a table name
\* that the startup load did not give.
C6_FallbackWitness ==
    /\ event.kind = "tick" /\ event.fallback
    /\ UniqueOf(dataframe_store, "table_name") # UniqueOf(StartupFrame, "table_name")

\* C7: selected is a subset of all, and visible is a subset of all.
C7_SelectedWithinAll ==
    /\ table_filter \subseteq all_tables
    /\ visible_tables(table_search) \subseteq all_tables

\* C8: the dataset only grows: every step keeps every record of
\* dataframe-store, in place and unaltered (a column the step adds holds
\* Null in the old rows), also when tables are deselected.
C8_DatasetOnlyGrows ==
    [][/\ Len(dataframe_store) <= Len(dataframe_store')
       /\ \A k \in 1..Len(dataframe_store) :
             Widen(dataframe_store'[k], Columns(dataframe_store'))
                 = Widen(dataframe_store[k], Columns(dataframe_store'))]_vars

\* C8 witness: the dataset has grown beyond the startup load and holds a
\* table that is not selected.
C8_GrownAndDeselectedWitness ==
    /\ Len(dataframe_store) > Len(StartupFrame)
    /\ event.kind = "tick"
    /\ UniqueOf(dataframe_store, "table_name") \ table_filter # {}

\* C9: for fragments A and B without a common (table_path, version), merging
\* A then B into the empty dataset gives the records that merging B then A
\* gives, absent columns filled with Null.
C9_MergeCommutes ==
    mrg.pc = "done" => SameRecords(mrg.AB, mrg.BA)

\* C9 witness: both orders are merged for two non-empty fragments with
\* different columns, and the two results differ as row lists.
C9_MergeWitness ==
    /\ mrg.pc = "done"
    /\ Fragment(histories, mrg.A) # <<>> /\ Fragment(histories, mrg.B) # <<>>
    /\ Columns(Fragment(histories, mrg.A)) # Columns(Fragment(histories, mrg.B))
    /\ mrg.AB # mrg.BA

\* C10: two records of the dataset with different table_path never carry the
\* same table_name.
C10_DisplayNamesUnique ==
    \A i, j \in 1..Len(dataframe_store) :
        dataframe_store[i].table_path # dataframe_store[j].table_path
            => dataframe_store[i].table_name # dataframe_store[j].table_name

----------------------------------------------------------------------------
(* The name normalisation on its own: get_all_table_info run on the answer *)
(* of a provider that holds a given list of distinct table paths.          *)

\* table paths in one answer of the provider
MaxPaths == 3

\* the variables of the dashboard
program_vars == <<histories, all_tables, loaded_tables, table_filter, table_search, dataframe_store, provider_calls, event, mrg, runs, checklist, inflight>>

\* the dashboard is not running: only the function harness moves
Detached(kind) ==
    /\ histories = <<>>
    /\ all_tables = {}
    /\ loaded_tables = {}
    /\ table_filter = {}
    /\ table_search = <<>>
    /\ dataframe_store = <<>>
    /\ provider_calls = <<>>
    /\ event = [kind |-> kind, fallback |-> FALSE]
    /\ mrg = MergeIdle
    /\ runs = <<>>
    /\ checklist = NoBoxes
    /\ inflight = NoRequests

\* tables under the scan root: siblings, a table in another directory, a
\* table whose path is the directory of other tables, and a sibling whose
\* name starts with the name of another
PathPool ==
    { Path(<< <<"a">>, <<"t", "1">> >>), Path(<< <<"a">>, <<"t", "2">> >>),
      Path(<< <<"a">> >>),               Path(<< <<"b">>, <<"t", "1">> >>),
      Path(<< <<"t", "1">> >>),          Path(<< <<"a">>, <<"t", "1", "x">> >>) }

\* the lists of at most MaxPaths distinct paths
PathLists ==
    UNION {Perms(S) : S \in {X \in SUBSET PathPool : Cardinality(X) <= MaxPaths}}

\* the provider's answer for a list of table paths, every history non-empty
HistoriesAt(paths) == HistoriesOf([i \in 1..Len(paths) |-> T(paths[i])])

InitNames ==
    /\ Detached("names")
    /\ \E paths \in PathLists : fn = [pc |-> "paths", in |-> paths, out |-> <<>>]

\* all_histories, all_table_names, all_table_paths = get_all_table_info()
Normalize ==
    /\ fn.pc = "paths"
    /\ fn' = [fn EXCEPT !.pc = "names",
                        !.out = get_all_table_info(HistoriesAt(fn.in)).all_table_names]
    /\ UNCHANGED program_vars

NextNames == Normalize

SpecNames == InitNames /\ [][NextNames]_vars

\* the longest prefix, ending with a separator, that every path of a
\* non-empty list starts with
LongestCommonDir(paths) ==
    LET first == paths[1]
        ends == {k \in 0..Len(first) :
                    /\ k = 0 \/ first[k] = "/"
                    /\ \A i \in 1..Len(paths) :
                          Len(paths[i]) >= k /\ SubSeq(paths[i], 1, k) = SubSeq(first, 1, k)}
    IN  SubSeq(first, 1, CHOOSE k \in ends : \A j \in ends : j <= k)

\* name is the final segment of path
IsFinalSegment(name, path) ==
    /\ \A i \in 1..Len(name) : name[i] # "/"
    /\ path = name \/ EndsWith(path, <<"/">> \o name)

\* C11: get_all_table_info returns one name per path: for one path its final
\* segment, for two or more paths the path without the longest common path
\* prefix terminated by a separator, for no path no name.
C11_NamesStripCommonPrefix ==
    fn.pc = "names" =>
        /\ Len(fn.out) = Len(fn.in)
        /\ Len(fn.in) = 1 => IsFinalSegment(fn.out[1], fn.in[1])
        /\ Len(fn.in) > 1 =>
              \A i \in 1..Len(fn.in) :
                  fn.in[i] = LongestCommonDir(fn.in) \o fn.out[i]

----------------------------------------------------------------------------
(* The dashboard with a provider that is not the one of the startup: a     *)
(* table listed at startup may have lost its version records since, and a  *)
(* call of get_table_history_py may raise.                                  *)

\* the provider's answer once the table at position k has no version
\* records any more (k = 0: every table as it was)
Dropped(hs, k) == [i \in 1..Len(hs) |-> IF i = k THEN <<>> ELSE hs[i]]

\* the positions of the histories load_data does not read
NotRead(hs) == {i \in 1..Len(hs) : i > max_tables}

\* a call of get_table_history_py that raised
RaisedCall == [root |-> "./tests/data/delta", recursive |-> TRUE, limit |-> "None", tables |-> {}, raised |-> TRUE]

Raised(calls) == calls # <<>> /\ "raised" \in DOMAIN calls[Len(calls)]

\* the module is imported with the provider's answer start; the provider
\* then answers with now
InitWith(start, now) ==
    /\ histories = now
    /\ ~Raises(load_data(start, max_tables))
    /\ all_tables = Range(load_data(start, max_tables).all_table_names)
    /\ loaded_tables = UniqueOf(load_data(start, max_tables).df, "table_name")
    /\ table_filter = UniqueOf(load_data(start, max_tables).df, "table_name")
    /\ dataframe_store = to_dicts(load_data(start, max_tables).df)
    /\ table_search = <<>>
    /\ provider_calls = <<>>
    /\ checklist = update_checklist(table_search, table_filter)
    /\ inflight = NoRequests
    /\ event = [kind |-> "startup", fallback |-> FALSE]
    /\ mrg = MergeIdle
    /\ fn = FnIdle
    /\ runs = <<>>

InitProvider ==
    \E l \in {LayoutFew} :
        \E k \in {0} \cup NotRead(HistoriesOf(l)) :
            InitWith(HistoriesOf(l), Dropped(HistoriesOf(l), k))

\* a failing run that reports the error after it has merged what it fetched
FailedRun_partial(run) ==
    /\ run.selected # <<>>
    /\ tables_to_load(run.selected, loaded_tables_list(deserialize_dataframe(run.snapshot))) # <<>>
    /\ dataframe_store' = ResultOf(run).data
    /\ provider_calls' = <<RaisedCall>>

\* a run of load_selected_tables in which get_table_history_py raises: the
\* exception leaves load_specific_tables and the callback, and Dash writes
\* no Output; the provider is called only when there is something to load
FailedRun(run) ==
    /\ run.selected # <<>>
    /\ tables_to_load(run.selected, loaded_tables_list(deserialize_dataframe(run.snapshot))) # <<>>
    /\ dataframe_store' = dataframe_store
    /\ provider_calls' = <<RaisedCall>>

\* load_selected_tables answers with an error
AnswerFailing ==
    /\ runs # <<>>
    /\ FailedRun(runs[1])
    /\ runs' = <<>>
    /\ UNCHANGED <<histories, all_tables, loaded_tables, table_filter,
                   table_search, checklist, inflight, event, mrg, fn>>

NextProvider ==
    /\ WithinBounds
    /\ \/ \E text \in SearchTexts : Type(text)
       \/ \E name \in all_tables : Tick(name)
       \/ AnswerChecklist
       \/ AnswerSelected
       \/ Answer
       \/ AnswerFailing

SpecProvider == InitProvider /\ [][NextProvider]_vars

\* the table names the dataset holds
HeldNames == loaded_tables_list(deserialize_dataframe(dataframe_store))

\* the provider has no version record for the table a name stands for
NoRecords(name) == RecordsFor(get_all_table_info(histories), histories, <<name>>) = <<>>

\* the names a run has to load for which the provider has no record
FoundEmpty(run) ==
    {n \in Range(tables_to_load(run.selected, loaded_tables_list(deserialize_dataframe(run.snapshot)))) : NoRecords(n)}

\* C12: a requested identity without records at the provider adds nothing to
\* the dataset and is marked loaded: once the load has answered, a load whose
\* selection holds, apart from such identities, only names of the dataset
\* makes no provider call.
C12_EmptyHistoryIsTerminal ==
    [][(LoadStep /\ ~Raised(provider_calls')) =>
          /\ \A k \in (Len(dataframe_store) + 1)..Len(dataframe_store') :
                dataframe_store'[k].table_name \notin FoundEmpty(runs[1])
          /\ load_selected_tables(histories,
                                  SeqOf(HeldNames' \cup FoundEmpty(runs[1])),
                                  dataframe_store').calls = <<>>]_vars

\* C13: a load whose provider call fails merges nothing: dataframe-store
\* holds the records it held, so no requested identity becomes loaded, and
\* the next selection change that requests one of them calls the provider
\* again.
C13_FailedLoadMergesNothing ==
    [][LoadStep =>
          /\ Raised(provider_calls') => dataframe_store' = dataframe_store
          /\ Raised(provider_calls) =>
                \A n \in Range(runs[1].selected) \ HeldNames :
                    provider_calls' # <<>>]_vars

\* C13 witness: the last load has failed, its request is answered, and a
\* selected name is still not in the dataset.
C13_FailedLoadWitness ==
    /\ Raised(provider_calls)
    /\ runs = <<>>
    /\ table_filter \ HeldNames # {}

----------------------------------------------------------------------------
(* Properties of the merge and of the names in the running dashboard.      *)

\* C14: a load whose fragment holds a record with a (table_path, version) of
\* the dataset is treated as a provider error: no row a load appends has the
\* (table_path, version) of a row the dataset held before.
C14_CollisionIsAnError ==
    [][\A k \in (Len(dataframe_store) + 1)..Len(dataframe_store') :
          \A j \in 1..Len(dataframe_store) :
              \/ dataframe_store'[k].table_path # dataframe_store[j].table_path
              \/ dataframe_store'[k].version # dataframe_store[j].version]_vars

\* the name get_all_table_info gives a path over every discoverable path
NameOfPath(path) ==
    LET info == get_all_table_info(histories)
    IN  info.all_table_names[CHOOSE i \in 1..Len(info.all_table_paths) : info.all_table_paths[i] = path]

\* C19: every record of the dataset carries as table_name the name that
\* get_all_table_info gives its table_path, so the table names of the dataset
\* are names of all.
C19_DisplayNameStable ==
    /\ \A k \in 1..Len(dataframe_store) :
          dataframe_store[k].table_name = NameOfPath(dataframe_store[k].table_path)
    /\ HeldNames \subseteq all_tables

\* C20: once the load of a selection change has completed, every selected
\* name of all (its history is not empty) has its records in the dataset
\* under that name.
C20_SelectedIsLoaded ==
    (runs = <<>> /\ inflight.update_selected_tables = <<>>) =>
    \A n \in table_filter \cap all_tables :
        \E k \in 1..Len(dataframe_store) :
            /\ dataframe_store[k].table_name = n
            /\ dataframe_store[k].table_path = PathOfName(n)

----------------------------------------------------------------------------
(* The text of the summary table.  format_bytes holds a byte count by its  *)
(* base-1024 digits, least significant first (1536 is <<512, 1>>, 0 is     *)
(* <<0>>), without a leading zero digit: the integers of the model have 32 *)
(* bits, and a division by 1024 moves one digit behind the point.  size is *)
(* the digits before the point (whole) and behind it (frac, most           *)
(* significant first).                                                     *)

units == << <<"B">>, <<"K", "i", "B">>, <<"M", "i", "B">>, <<"G", "i", "B">>, <<"T", "i", "B">> >>

DigitChars == <<"0", "1", "2", "3", "4", "5", "6", "7", "8", "9">>

RECURSIVE Digits(_)
\* str(n) for an int n >= 0
Digits(n) ==
    IF n < 10 THEN <<DigitChars[n + 1]>>
    ELSE Digits(n \div 10) \o <<DigitChars[(n % 10) + 1]>>

RECURSIVE ValueOf(_)
\* the number a list of base-1024 digits stands for
ValueOf(limbs) ==
    IF limbs = <<>> THEN 0 ELSE limbs[1] + 1024 * ValueOf(Tail(limbs))

\* size /= 1024
Divide(size) == [whole |-> Tail(size.whole), frac |-> <<size.whole[1]>> \o size.frac]

\* a loop test size > 1024
Continues_above(size, unit_index) ==
    /\ Len(size.whole) > 1
    /\ size.whole # <<0, 1>> \/ \E i \in 1..Len(size.frac) : size.frac[i] # 0
    /\ unit_index < Len(units) - 1

\* size >= 1024 and unit_index < len(units) - 1
Continues(size, unit_index) ==
    /\ Len(size.whole) > 1
    /\ unit_index < Len(units) - 1

RECURSIVE Scale(_, _)
\* the while loop: size and unit_index when it ends
Scale(size, unit_index) ==
    IF Continues(size, unit_index) THEN Scale(Divide(size), unit_index + 1)
    ELSE [size |-> size, unit_index |-> unit_index]

RECURSIVE Times100(_)
\* 100 times a fraction: what goes before the point and what stays behind
Times100(frac) ==
    IF frac = <<>> THEN [carry |-> 0, limbs |-> <<>>]
    ELSE LET rest == Times100(Tail(frac))
             t == frac[1] * 100 + rest.carry
         IN  [carry |-> t \div 1024, limbs |-> <<t % 1024>> \o rest.limbs]

\* whether h hundredths and a rest behind them round to h + 1: above one
\* half up, one half to the even neighbour
RoundsUp(h, rest) ==
    IF rest = <<>> \/ rest[1] < 512 THEN FALSE
    ELSE IF rest[1] > 512 \/ \E i \in 2..Len(rest) : rest[i] # 0 THEN TRUE
    ELSE h % 2 = 1

\* size in hundredths, rounded as the format .2f rounds
Hundredths(size) ==
    LET m == Times100(size.frac)
        h == ValueOf(size.whole) * 100 + m.carry
    IN  IF RoundsUp(h, m.limbs) THEN h + 1 ELSE h

\* f"{size:.2f}" for h hundredths
Fixed2(h) ==
    Digits(h \div 100) \o <<".", DigitChars[((h % 100) \div 10) + 1], DigitChars[(h % 10) + 1]>>

Formatted(s) ==
    IF s.unit_index = 0
    THEN Digits(ValueOf(s.size.whole)) \o <<" ">> \o units[s.unit_index + 1]
    ELSE Fixed2(Hundredths(s.size)) \o <<" ">> \o units[s.unit_index + 1]

\* format_bytes(bytes_value)
format_bytes(bytes_value) == Formatted(Scale([whole |-> bytes_value, frac |-> <<>>], 0))

RECURSIVE Limbs(_)
\* the base-1024 digits of an int n >= 0, least significant first
Limbs(n) == IF n < 1024 THEN <<n>> ELSE <<n % 1024>> \o Limbs(n \div 1024)

RECURSIVE GroupDigits(_)
\* a comma before every group of three digits, counted from the right
GroupDigits(digits) ==
    IF Len(digits) <= 3 THEN digits
    ELSE GroupDigits(SubSeq(digits, 1, Len(digits) - 3))
             \o <<",">> \o SubSeq(digits, Len(digits) - 2, Len(digits))

\* f"{x:,}" for an int x >= 0
Grouped(x) == GroupDigits(Digits(x))

\* f"{n:02d}" for 0 <= n
TwoDigits(n) == IF n < 10 THEN <<"0">> \o Digits(n) ELSE Digits(n)

DayNames == << <<"M", "o", "n">>, <<"T", "u", "e">>, <<"W", "e", "d">>, <<"T", "h", "u">>, <<"F", "r", "i">>, <<"S", "a", "t">>, <<"S", "u", "n">> >>

MonthNames == << <<"J", "a", "n">>, <<"F", "e", "b">>, <<"M", "a", "r">>, <<"A", "p", "r">>, <<"M", "a", "y">>, <<"J", "u", "n">>, <<"J", "u", "l">>, <<"A", "u", "g">>, <<"S", "e", "p">>, <<"O", "c", "t">>, <<"N", "o", "v">>, <<"D", "e", "c">> >>

MsPerHour == 3600000
MsPerDay == 24 * MsPerHour

\* the calendar date of a day counted from 1970-01-01 (proleptic Gregorian)
DateOf(days) ==
    LET z   == days + 719468
        era == z \div 146097
        doe == z - era * 146097
        yoe == (doe - doe \div 1460 + doe \div 36524 - doe \div 146096) \div 365
        doy == doe - (365 * yoe + yoe \div 4 - yoe \div 100)
        mp  == (5 * doy + 2) \div 153
        m   == IF mp < 10 THEN mp + 3 ELSE mp - 9
    IN  [year  |-> yoe + era * 400 + (IF m <= 2 THEN 1 ELSE 0),
         month |-> m,
         day   |-> doy - (153 * mp + 2) \div 5 + 1,
         weekday |-> (days + 3) % 7]

\* dt.strftime("%a, %b %d, %Y %H:%m %p") of an instant in ms since the epoch:
\* %m is the month, so the text shows hour and month and no minute
strftime(ms) ==
    LET date == DateOf(ms \div MsPerDay)
        hour == (ms % MsPerDay) \div MsPerHour
    IN  DayNames[date.weekday + 1] \o <<",", " ">> \o MonthNames[date.month]
            \o <<" ">> \o TwoDigits(date.day) \o <<",", " ">> \o Digits(date.year)
            \o <<" ">> \o TwoDigits(hour) \o <<":">> \o TwoDigits(date.month)
            \o <<" ">> \o (IF hour < 12 THEN <<"A", "M">> ELSE <<"P", "M">>)

----------------------------------------------------------------------------
(* The summary on its own: update_summary_table on a dataset that          *)
(* load_data built and load_selected_tables grew, one load after another.  *)

\* loads after startup that build the dataset of the aggregation harness
MaxLoads == 2
\* version records of the longest history of the aggregation harness
SummaryVersions == 4

MaxOf(S) == CHOOSE x \in S : \A y \in S : y <= x

\* the values of a column, nulls left out
NonNull(df, col) == {df[k][col] : k \in 1..Len(df)} \ {Null}

\* current_df.filter(pl.col("table_name").is_in(selected_tables))
filter_selected(df, selected_tables) ==
    SelectSeq(df, LAMBDA row : row.table_name \in selected_tables)

\* the rows of one group of group_by("table_path"), in the frame's order
RowsOfPath(df, path) == SelectSeq(df, LAMBDA row : row.table_path = path)

\* an aggregation that takes first() where the code takes last()
SummaryRow_first(group) ==
    [table_path   |-> group[1].table_path,
     Version      |-> MaxOf(NonNull(group, "version")),
     Records      |-> group[1].total_rows,
     Size         |-> group[1].total_bytes,
     Last_Updated |-> MaxOf(NonNull(group, "timestamp"))]

\* the aggregation of one group
SummaryRow(group) ==
    [table_path   |-> group[1].table_path,
     Version      |-> MaxOf(NonNull(group, "version")),
     Records      |-> group[Len(group)].total_rows,
     Size         |-> group[Len(group)].total_bytes,
     Last_Updated |-> MaxOf(NonNull(group, "timestamp"))]

\* the columns of summary_pd rewritten as text; Last_Updated is the column
\* "Last Updated"
SummaryText(row) ==
    [row EXCEPT !.Records      = Grouped(@),
                !.Size         = format_bytes(Limbs(@)),
                !.Last_Updated = strftime(@)]

\* create_summary_stats(df): one row per group, three columns as text;
\* group_by gives the rows in no fixed order, so they are a set
create_summary_stats(df) ==
    {SummaryText(SummaryRow(RowsOfPath(df, path))) : path \in UniqueOf(df, "table_path")}

\* update_summary_table(selected_tables, df_dicts); html.Div() is no row
update_summary_table(selected_tables, df_dicts) ==
    IF df_dicts = <<>> \/ selected_tables = {} THEN {}
    ELSE create_summary_stats(filter_selected(deserialize_dataframe(df_dicts), selected_tables))

\* seven tables in one directory
LayoutSeven ==
    << T(Path(<< <<"t", "1">> >>)), T(Path(<< <<"t", "2">> >>)),
       T(Path(<< <<"t", "3">> >>)), T(Path(<< <<"t", "4">> >>)),
       T(Path(<< <<"t", "5">> >>)), T(Path(<< <<"t", "6">> >>)),
       T(Path(<< <<"t", "7">> >>)) >>

\* five tables under a/, two under b/
LayoutSevenNested ==
    << T(Path(<< <<"a">>, <<"t", "1">> >>)), T(Path(<< <<"a">>, <<"t", "2">> >>)),
       T(Path(<< <<"a">>, <<"t", "3">> >>)), T(Path(<< <<"a">>, <<"t", "4">> >>)),
       T(Path(<< <<"a">>, <<"t", "5">> >>)), T(Path(<< <<"b">>, <<"t", "1">> >>)),
       T(Path(<< <<"b">>, <<"t", "2">> >>)) >>

\* the first table has the longest history, the sixth one record less
VersionsAt(i) ==
    IF i = 1 THEN SummaryVersions
    ELSE IF i = 6 THEN SummaryVersions - 1
    ELSE 1 + (i % 2)

\* the records of the seventh table: thousands of rows, MiB of bytes, and
\* written on the afternoon of a later day
LargeRecord(record) ==
    [record EXCEPT !.total_rows  = 1000 * @,
                   !.total_bytes = 1000 * @,
                   !.timestamp   = @ + 20 * MsPerDay + 13 * MsPerHour]

LongHistoriesOf(layout) ==
    [i \in 1..Len(layout) |->
        [k \in 1..VersionsAt(i) |->
            IF i = 7 THEN LargeRecord(VersionRecord(layout[i].path, i, k - 1))
            ELSE VersionRecord(layout[i].path, i, k - 1)]]

\* the lists of at most n elements of a set
RECURSIVE SeqsUpTo(_, _)
SeqsUpTo(S, n) ==
    IF n = 0 THEN {<<>>}
    ELSE LET shorter == SeqsUpTo(S, n - 1)
         IN  shorter \cup {Append(q, x) : q \in {r \in shorter : Len(r) = n - 1}, x \in S}

\* load_selected_tables run once for each name of a list, on a store
RECURSIVE LoadEach(_, _, _)
LoadEach(hs, names, df_dicts) ==
    IF names = <<>> THEN df_dicts
    ELSE LoadEach(hs, Tail(names), load_selected_tables(hs, <<names[1]>>, df_dicts).data)

\* the datasets the store can hold after at most MaxLoads clicks
Datasets(hs) ==
    {LoadEach(hs, names, to_dicts(load_data(hs, max_tables).df)) :
        names \in SeqsUpTo(Range(get_all_table_info(hs).all_table_names), MaxLoads)}

\* the selections tried on a dataset: its names, all names, and each alone
Selections(df_dicts) ==
    {loaded_tables_list(df_dicts), all_tables}
        \cup {{n} : n \in loaded_tables_list(df_dicts) \cup all_tables}

\* the dashboard stands still on a provider world; the harness holds a
\* dataset and a selection
InitAggregate(kind) ==
    /\ histories \in {LongHistoriesOf(LayoutSeven), LongHistoriesOf(LayoutSevenNested)}
    /\ all_tables = Range(get_all_table_info(histories).all_table_names)
    /\ loaded_tables = UniqueOf(load_data(histories, max_tables).df, "table_name")
    /\ table_filter = {}
    /\ table_search = <<>>
    /\ dataframe_store = <<>>
    /\ provider_calls = <<>>
    /\ event = [kind |-> kind, fallback |-> FALSE]
    /\ mrg = MergeIdle
    /\ runs = <<>>
    /\ checklist = NoBoxes
    /\ inflight = NoRequests
    /\ \E data \in Datasets(histories) :
          \E selected \in Selections(data) :
              fn = [pc |-> "dataset", in |-> [data |-> data, selected |-> selected], out |-> {}]

InitSummary == InitAggregate("summary")

Summarize ==
    /\ fn.pc = "dataset"
    /\ fn' = [fn EXCEPT !.pc = "summary",
                        !.out = update_summary_table(fn.in.selected, fn.in.data)]
    /\ UNCHANGED program_vars

NextSummary == Summarize

SpecSummary == InitSummary /\ [][NextSummary]_vars

\* the filtered dataset of the harness
Filtered == filter_selected(fn.in.data, fn.in.selected)

\* C15: the summary has exactly one row per table_path of the filtered
\* dataset, with Version the largest version of that table and Records and
\* Size the total_rows and total_bytes of a record with that version, as the
\* text the table shows.
C15_SummaryIsLatestVersion ==
    fn.pc = "summary" =>
        /\ {r.table_path : r \in fn.out} = UniqueOf(Filtered, "table_path")
        /\ \A r, q \in fn.out : r.table_path = q.table_path => r = q
        /\ \A r \in fn.out :
              /\ \A k \in 1..Len(Filtered) :
                    Filtered[k].table_path = r.table_path => Filtered[k].version <= r.Version
              /\ \E k \in 1..Len(Filtered) :
                    /\ Filtered[k].table_path = r.table_path
                    /\ Filtered[k].version = r.Version
                    /\ Grouped(Filtered[k].total_rows) = r.Records
                    /\ format_bytes(Limbs(Filtered[k].total_bytes)) = r.Size

\* C15 witness: a summary of several tables in a dataset that grew after
\* startup, one of them with a record of more total_rows than its latest
\* version, one with Records of more than three digits.
C15_SummaryWitness ==
    /\ fn.pc = "summary"
    /\ Cardinality(fn.out) > 1
    /\ Len(fn.in.data) > Len(load_data(histories, max_tables).df)
    /\ \E r \in fn.out : \E k, j \in 1..Len(Filtered) :
          /\ Filtered[k].table_path = r.table_path
          /\ Filtered[j].table_path = r.table_path
          /\ Filtered[j].version = r.Version
          /\ Filtered[k].total_rows > Filtered[j].total_rows
    /\ \E r \in fn.out : \E i \in 1..Len(r.Records) : r.Records[i] = ","

----------------------------------------------------------------------------
(* The operation breakdown on its own: update_operations_chart on the      *)
(* datasets and selections of the summary harness.                          *)

\* (table_name, operation) groups of a breakdown of the harness
MaxGroups == 3

\* the (table_name, operation) pairs of a frame
Pairs(df) == {<<df[k].table_name, df[k].operation>> : k \in 1..Len(df)}

\* pl.len() of one group
CountRow(df, pair) ==
    [table_name |-> pair[1], operation |-> pair[2],
     count |-> Cardinality({k \in 1..Len(df) :
                               df[k].table_name = pair[1] /\ df[k].operation = pair[2]})]

\* operation_counts of create_operation_breakdown(df): one row per group;
\* group_by without maintain_order fixes no row order, so every order of
\* the rows is a frame it may give; px.bar stacks the rows in their order
create_operation_breakdown(df) == Perms({CountRow(df, pair) : pair \in Pairs(df)})

\* update_operations_chart(selected_tables, df_dicts); the empty figure has
\* no row
update_operations_chart(selected_tables, df_dicts) ==
    IF selected_tables = {} \/ df_dicts = <<>> THEN {<<>>}
    ELSE create_operation_breakdown(filter_selected(deserialize_dataframe(df_dicts), selected_tables))

InitBreakdown ==
    /\ InitAggregate("breakdown")
    /\ Cardinality(Pairs(Filtered)) <= MaxGroups

Breakdown ==
    /\ fn.pc = "dataset"
    /\ \E rows \in update_operations_chart(fn.in.selected, fn.in.data) :
          fn' = [fn EXCEPT !.pc = "breakdown", !.out = rows]
    /\ UNCHANGED program_vars

NextBreakdown == Breakdown

SpecBreakdown == InitBreakdown /\ [][NextBreakdown]_vars

\* the characters of the model in the order of their code points
CodePointOrder == <<".", "/", "1", "2", "3", "4", "5", "6", "7", "A", "B", "D", "T", "Z", "a", "b", "d", "t", "x", "z">>

\* the operations of the model in the order of their names
OperationOrder == <<"DELETE", "OPTIMIZE", "WRITE">>

RankIn(order, x) == CHOOSE i \in 1..Len(order) : order[i] = x

RECURSIVE StrLess(_, _)
\* a < b for two Python str
StrLess(a, b) ==
    IF b = <<>> THEN FALSE
    ELSE IF a = <<>> THEN TRUE
    ELSE IF a[1] = b[1] THEN StrLess(Tail(a), Tail(b))
    ELSE RankIn(CodePointOrder, a[1]) < RankIn(CodePointOrder, b[1])

\* row r comes before row q by table_name, then by operation
PairLess(r, q) ==
    \/ StrLess(r.table_name, q.table_name)
    \/ /\ r.table_name = q.table_name
       /\ RankIn(OperationOrder, r.operation) < RankIn(OperationOrder, q.operation)

\* C16: the breakdown has one row per (table_name, operation) of the filtered
\* dataset, its count the number of records of the pair, and the rows are
\* sorted by table_name, then by operation.
C16_BreakdownCountedAndSorted ==
    fn.pc = "breakdown" =>
        /\ {<<fn.out[i].table_name, fn.out[i].operation>> : i \in 1..Len(fn.out)} = Pairs(Filtered)
        /\ \A i \in 1..Len(fn.out) :
              fn.out[i].count =
                  Len(SelectSeq(Filtered, LAMBDA row :
                          row.table_name = fn.out[i].table_name /\ row.operation = fn.out[i].operation))
        /\ \A i, j \in 1..Len(fn.out) : i < j => PairLess(fn.out[i], fn.out[j])

----------------------------------------------------------------------------
(* format_bytes on its own, on byte counts up to 2^53, where              *)
(* float(bytes_value) is exact.                                            *)

\* base-1024 digits of a byte count
MaxLimbs == 6

\* digits that reach the unit bounds, the halves and the rounding up
LimbPool == {0, 1, 128, 512, 1023}

\* no leading zero digit, and below 2^53 = 8 * 1024^5
IsByteCount(limbs) ==
    /\ Len(limbs) >= 1
    /\ Len(limbs) > 1 => limbs[Len(limbs)] # 0
    /\ Len(limbs) <= 6
    /\ Len(limbs) = 6 => limbs[6] < 8

\* a count below 2^53 has six digits at most
ByteCounts ==
    {limbs \in SeqsUpTo(LimbPool, IF MaxLimbs < 6 THEN MaxLimbs ELSE 6) : IsByteCount(limbs)}

InitBytes ==
    /\ Detached("bytes")
    /\ \E bytes_value \in ByteCounts :
          fn = [pc |-> "bytes", in |-> bytes_value, out |-> <<>>]

\* summary_pd["Size"].apply(format_bytes); divisions is unit_index at the end
Format ==
    /\ fn.pc = "bytes"
    /\ fn' = [fn EXCEPT !.pc = "formatted",
                        !.out = [text |-> format_bytes(fn.in),
                                 divisions |-> Scale([whole |-> fn.in, frac |-> <<>>], 0).unit_index]]
    /\ UNCHANGED program_vars

NextBytes == Format

SpecBytes == InitBytes /\ [][NextBytes]_vars

AllDigits(q) == \A i \in 1..Len(q) : \E d \in 1..Len(DigitChars) : q[i] = DigitChars[d]

\* the index of the unit of a byte count: its power of 1024, at most 4
UnitOf(limbs) == IF Len(limbs) - 1 < 4 THEN Len(limbs) - 1 ELSE 4

\* the text before the blank and the unit
NumberPart(text, unit) == SubSeq(text, 1, Len(text) - Len(unit) - 1)

\* C17: format_bytes gives a byte count in [1024^i, 1024^(i+1)) the i-th
\* unit and TiB from 1024^4 up, after at most 4 divisions; in B the number
\* is the integer without decimals, in the larger units it has two decimals;
\* 0 gives "0 B", 1536 "1.50 KiB" and 1073741824 "1.00 GiB".
C17_FormatBytes ==
    fn.pc = "formatted" =>
        LET unit == units[UnitOf(fn.in) + 1]
            number == NumberPart(fn.out.text, unit)
        IN  /\ fn.out.divisions = UnitOf(fn.in)
            /\ fn.out.divisions <= 4
            /\ EndsWith(fn.out.text, <<" ">> \o unit)
            /\ UnitOf(fn.in) = 0 => number = Digits(fn.in[1])
            /\ UnitOf(fn.in) > 0 =>
                  /\ Len(number) >= 4
                  /\ number[Len(number) - 2] = "."
                  /\ AllDigits(SubSeq(number, 1, Len(number) - 3))
                  /\ AllDigits(SubSeq(number, Len(number) - 1, Len(number)))
            /\ fn.in = <<0>> => fn.out.text = <<"0", " ", "B">>
            /\ fn.in = <<512, 1>> => fn.out.text = <<"1", ".", "5", "0", " ", "K", "i", "B">>
            /\ fn.in = <<0, 0, 0, 1>> => fn.out.text = <<"1", ".", "0", "0", " ", "G", "i", "B">>

\* C17 witness: a byte count of 1024^5 or more is formatted in TiB, the loop
\* ended by the last unit after four divisions.
C17_TiBWitness ==
    /\ fn.pc = "formatted"
    /\ Len(fn.in) = 6
    /\ fn.out.divisions = 4
    /\ EndsWith(fn.out.text, <<" ", "T", "i", "B">>)

----------------------------------------------------------------------------
(* The order of the loads.  A request of load_selected_tables carries the  *)
(* State dataframe-store of the moment table-filter is written, and its    *)
(* answer is the whole new store.  Nothing in dashboard.py orders the      *)
(* requests: a click can be answered by update_selected_tables while an    *)
(* earlier load is still running, and the new request then replaces it.    *)

\* a step in which table-filter is written and load_selected_tables requested
DispatchStep ==
    /\ inflight.update_selected_tables # <<>>
    /\ inflight'.update_selected_tables = <<>>

\* C18: the runs of load_selected_tables are serialized: a run that is
\* requested while another is in flight reads the store that run returns, so
\* no run works on the snapshot another run has read and no result is lost.
C18_LoadsSerialized ==
    [][(DispatchStep /\ runs # <<>>) =>
          runs'[1].snapshot = ResultOf(runs[1]).data]_vars

====
